---- MODULE Spec2Model ----
\* Model of the BingX streaming client (src/internal/websocket/websocket.go):
\* the BingXWebSocket struct, Connect / subscribeAll / listen / handleMessage /
\* dispatch / sendPong / reconnect / Close, run by application goroutines and by
\* the listener goroutines that Connect spawns.
\*
\* Strings are sequences of one-character strings, so that parseSymbol and
\* parsePrice are computed character by character as the code does.
EXTENDS Integers, Sequences, FiniteSets, TLC

\* ---------------------------------------------------------------- bounds
\* number of successful dials (transport handles) in one behaviour
MaxDials == 2
\* number of inbound frames delivered by the transport in one behaviour
MaxFrames == 1
\* number of Connect / Close calls made by the application
MaxAppCalls == 2
\* longest configured channel list
MaxTokens == 2

\* ---------------------------------------------------------------- data
Nil == 0
Handles == 1..MaxDials
\* the application goroutine is task -1; the listener goroutine spawned by the
\* Connect that dialed handle h is task h
AppTasks == {0 - 1}
Tasks == AppTasks \cup Handles

Empty == << >>
PingText == <<"P", "i", "n", "g">>
PongText == <<"P", "o", "n", "g">>
BtcTrade == <<"B", "@", "t">>
EthTrade == <<"E", "@", "t">>
SolTrade == <<"S", "@", "t">>
AdaTrade == <<"A", "@", "t">>
AllTokens == <<BtcTrade, EthTrade, SolTrade, AdaTrade>>

\* the channel lists NewBingXWebSocket may be given
TokenLists == {SubSeq(AllTokens, 1, n) : n \in 0..MaxTokens}

\* a Channel as marshalled on the wire, and the Pong text frame
Channel(id, token) == [ID |-> id, ReqType |-> "sub", DataType |-> token]
PongMsg == [ID |-> 0, ReqType |-> "Pong", DataType |-> Empty]

\* decoded payloads: either raw text or a JSON object {"dataType":..,"data":{"p":..}}
TextPayload(s) == [kind |-> "text", text |-> s, dataType |-> Empty, p |-> Empty]
JsonPayload(d, p) == [kind |-> "json", text |-> Empty, dataType |-> d, p |-> p]
\* an inbound frame: gz tells whether the bytes are a well-formed gzip stream
Frame(gz, payload) == [gz |-> gz, payload |-> payload]

NoFrame == Frame(FALSE, TextPayload(Empty))
Frames ==
  { Frame(TRUE, TextPayload(PingText)),
    Frame(FALSE, TextPayload(PingText)),
    Frame(TRUE, TextPayload(PongText)),
    Frame(TRUE, JsonPayload(BtcTrade, <<"1", ".", "5">>)),
    Frame(TRUE, JsonPayload(Empty, <<"1", ".", "5">>)),
    Frame(TRUE, JsonPayload(BtcTrade, Empty)),
    Frame(TRUE, JsonPayload(<<"B">>, <<"2">>)),
    Frame(TRUE, JsonPayload(<<"@", "t">>, <<"1", "a">>)),
    Frame(TRUE, JsonPayload(EthTrade, <<"a", "b">>)) }

MarketData(d, p) == [DataType |-> d, Price |-> p]
PriceUpdate(symbol, price) == [Type |-> "priceUpdate", Symbol |-> symbol, Price |-> price]
NoUpdate == [Type |-> "none", Symbol |-> Empty, Price |-> 0]

\* ---------------------------------------------------------------- pure functions
\* a decompress that hands back bytes that are not a gzip stream as they are
decompress_PassThrough(f) == [err |-> FALSE, data |-> f.payload]

\* decompress: gzip.NewReader + io.ReadAll
decompress(f) == IF f.gz THEN [err |-> FALSE, data |-> f.payload]
                         ELSE [err |-> TRUE, data |-> TextPayload(Empty)]

\* json.Unmarshal into MarketData: text that is not a JSON value is an error,
\* absent fields stay the empty string
Unmarshal(data) == IF data.kind = "json"
                   THEN [err |-> FALSE, m |-> MarketData(data.dataType, data.p)]
                   ELSE [err |-> TRUE, m |-> MarketData(Empty, Empty)]

RECURSIVE IndexFrom(_, _, _)
IndexFrom(s, c, k) == IF k > Len(s) THEN -1
                      ELSE IF s[k] = c THEN k - 1
                      ELSE IndexFrom(s, c, k + 1)
\* strings.IndexRune: 0-based index of the first occurrence, -1 if absent
IndexRune(s, c) == IndexFrom(s, c, 1)

\* parseSymbol with the test idx > 1 in place of idx > 0
parseSymbol_OffByOne(s) == LET idx == IndexRune(s, "@")
                           IN IF idx > 1 THEN SubSeq(s, 1, idx) ELSE s

parseSymbol(s) == LET idx == IndexRune(s, "@")
                  IN IF idx > 0 THEN SubSeq(s, 1, idx) ELSE s

Digits == {"0", "1", "2", "3", "4", "5", "6", "7", "8", "9"}
DigitVal(c) == CASE c = "0" -> 0 [] c = "1" -> 1 [] c = "2" -> 2 [] c = "3" -> 3
                 [] c = "4" -> 4 [] c = "5" -> 5 [] c = "6" -> 6 [] c = "7" -> 7
                 [] c = "8" -> 8 [] c = "9" -> 9

\* number of leading characters of s, from position k, that are in set
RECURSIVE Span(_, _, _)
Span(s, set, k) == IF k > Len(s) \/ s[k] \notin set THEN 0
                   ELSE 1 + Span(s, set, k + 1)

RECURSIVE DecVal(_, _)
DecVal(s, acc) == IF s = Empty THEN acc
                  ELSE DecVal(Tail(s), acc * 10 + DigitVal(Head(s)))

\* fmt.Sscanf(s, "%f", &f) for strings over digits, '.', '+', '-', ' ' and
\* letters other than those of "nan", "inf", exponents and hex prefixes:
\* skip leading spaces, fail at EOF, take the longest float token
\* (sign, digits, '.', digits), convert it with strconv.ParseFloat and ignore
\* whatever follows the token. The value is in hundredths.
parsePrice(s) ==
  LET sp   == Span(s, {" "}, 1)
      sg   == Span(s, {"+", "-"}, sp + 1)
      sign == IF sg > 0 THEN 1 ELSE 0
      neg  == sign = 1 /\ s[sp + 1] = "-"
      nInt == Span(s, Digits, sp + sign + 1)
      dot  == IF sp + sign + nInt + 1 <= Len(s) /\ s[sp + sign + nInt + 1] = "." THEN 1 ELSE 0
      nFr  == IF dot = 1 THEN Span(s, Digits, sp + sign + nInt + 2) ELSE 0
      int  == SubSeq(s, sp + sign + 1, sp + sign + nInt)
      fr   == SubSeq(s, sp + sign + nInt + 2, sp + sign + nInt + 1 + nFr)
      fr2  == SubSeq(fr \o <<"0", "0">>, 1, 2)
      mag  == DecVal(int, 0) * 100 + DecVal(fr2, 0)
  IN IF sp = Len(s) THEN [err |-> TRUE, f |-> 0]
     ELSE IF nInt + nFr = 0 THEN [err |-> TRUE, f |-> 0]
     ELSE [err |-> FALSE, f |-> IF neg THEN 0 - mag ELSE mag]

\* dispatch without the test of line 172
dispatch_NoEmptyCheck(m, hasHandler) ==
  LET symbol == parseSymbol(m.DataType)
      pr == parsePrice(m.Price)
  IN IF pr.err THEN [cb |-> NoUpdate, diag |-> "Invalid price"]
     ELSE IF hasHandler THEN [cb |-> PriceUpdate(symbol, pr.f), diag |-> "none"]
     ELSE [cb |-> NoUpdate, diag |-> "none"]

\* dispatch: what the callback receives (NoUpdate: not called) and what is logged
dispatch(m, hasHandler) ==
  IF m.DataType = Empty \/ m.Price = Empty
  THEN [cb |-> NoUpdate, diag |-> "none"]
  ELSE LET symbol == parseSymbol(m.DataType)
           pr == parsePrice(m.Price)
       IN IF pr.err THEN [cb |-> NoUpdate, diag |-> "Invalid price"]
          ELSE IF hasHandler THEN [cb |-> PriceUpdate(symbol, pr.f), diag |-> "none"]
          ELSE [cb |-> NoUpdate, diag |-> "none"]

\* ---------------------------------------------------------------- state
VARIABLES
  conn,            \* ws.conn: Nil or the handle in the connection slot
  quit,            \* ws.quit is closed
  quitCloses,      \* how many times close(ws.quit) was executed
  tokens,          \* ws.tokens
  messageHandler,  \* ws.messageHandler # nil
  nextHandle,      \* number of handles dialed so far
  dialer,          \* dialer[h]: the task whose Connect dialed h (Nil: not dialed)
  closed,          \* closed[h]: number of conn.Close() calls on h
  broken,          \* broken[h]: the transport of h failed (its reads and writes return errors)
  sent,            \* sent[h]: the messages written to h, in order
  nextId,          \* number of uuid.New() results handed out
  pc,              \* pc[t]: position of task t
  lconn,           \* the local variable conn of subscribeAll / listen in task t
  idx,             \* the loop index of subscribeAll in task t (1-based)
  msg,             \* the frame read by listen in task t
  wconn,           \* the handle on which task t has a WriteMessage in progress (Nil: none)
  raced,           \* the tasks whose WriteMessage in progress has overlapped another one on the same handle
  dialed,          \* the local variable conn of Connect in task t
  result,          \* the value returned by the last Connect / Close of task t
  late,            \* the Connect running in application task t was called after an application Close
  frames,          \* number of frames read so far
  appCalls,        \* number of Connect / Close calls made by the application
  appCloseCalled,  \* the application has called Close
  reconnFailed,    \* the dial of a reconnect failed on an empty slot and the application has not called Connect since
  last             \* what the handleMessage call that has just returned did with
                   \* its frame (NoLast once its listener has gone on)

shared == <<conn, quit, quitCloses>>
config == <<tokens, messageHandler>>
net    == <<nextHandle, dialer, closed, broken, sent, nextId>>
locals == <<pc, lconn, idx, msg, wconn, raced, dialed, result, late>>
hist   == <<frames, appCalls, appCloseCalled, reconnFailed, last>>
vars   == <<conn, quit, quitCloses, tokens, messageHandler, nextHandle, dialer,
           closed, broken, sent, nextId, pc, lconn, idx, msg, wconn, raced,
           dialed, result, late, frames, appCalls, appCloseCalled, reconnFailed, last>>

NoLast == [t |-> Nil, h |-> Nil, f |-> NoFrame, pongCalls |-> 0, pongTo |-> Nil,
           cb |-> NoUpdate, diag |-> "none", panicked |-> FALSE]

\* NewBingXWebSocket: no connection, an open quit channel, no goroutine
Init ==
  /\ conn = Nil
  /\ quit = FALSE
  /\ quitCloses = 0
  /\ tokens \in TokenLists
  /\ messageHandler \in BOOLEAN
  /\ nextHandle = 0
  /\ dialer = [h \in Handles |-> Nil]
  /\ closed = [h \in Handles |-> 0]
  /\ broken = [h \in Handles |-> FALSE]
  /\ sent = [h \in Handles |-> << >>]
  /\ nextId = 0
  /\ pc = [t \in Tasks |-> IF t \in AppTasks THEN "idle" ELSE "unborn"]
  /\ lconn = [t \in Tasks |-> Nil]
  /\ idx = [t \in Tasks |-> 0]
  /\ msg = [t \in Tasks |-> NoFrame]
  /\ wconn = [t \in Tasks |-> Nil]
  /\ raced = {}
  /\ dialed = [t \in Tasks |-> Nil]
  /\ result = [t \in Tasks |-> "none"]
  /\ late = [t \in AppTasks |-> FALSE]
  /\ frames = 0
  /\ appCalls = 0
  /\ appCloseCalled = FALSE
  /\ reconnFailed = FALSE
  /\ last = NoLast

\* a read or write on h succeeds: h was not closed and its transport works
IoOk(h) == closed[h] = 0 /\ ~broken[h]
\* dialed and not yet closed
Live(h) == dialer[h] # Nil /\ closed[h] = 0

\* some task holds the read lock of ws.mu across steps (sendPong while it writes)
RLocked == \E t \in Handles : pc[t] = "p_writing"
\* a WriteMessage on h is in progress
Writing(h) == \E t \in Tasks : wconn[t] = h

\* where a task is after its Connect returns: the application goes on, a
\* listener returns from reconnect and from listen
AfterConnect(t) == IF t \in AppTasks THEN "idle" ELSE "exited"

\* a task is about to execute the first statement of Connect
AtConnect(t) == \/ t \in AppTasks /\ pc[t] = "idle" /\ appCalls < MaxAppCalls
                \/ t \in Handles /\ pc[t] = "c_dial"

\* ---------------------------------------------------------------- Connect
\* a Connect that assigns ws.conn before it looks at the error of the dial
DialFail_ClearsSlot(t) ==
  /\ AtConnect(t)
  /\ conn' = Nil
  /\ pc' = [pc EXCEPT ![t] = AfterConnect(t)]
  /\ result' = [result EXCEPT ![t] = "dialfail"]
  /\ appCalls' = IF t \in AppTasks THEN appCalls + 1 ELSE appCalls
  /\ reconnFailed' = (t \in Handles /\ conn = Nil)
  /\ UNCHANGED <<quit, quitCloses, config, net, lconn, idx, msg, wconn, raced, dialed, late,
                 frames, appCloseCalled, last>>

\* Connect, lines 64-67: the dial fails and Connect returns the error
DialFail(t) ==
  /\ AtConnect(t)
  /\ pc' = [pc EXCEPT ![t] = AfterConnect(t)]
  /\ result' = [result EXCEPT ![t] = "dialfail"]
  /\ appCalls' = IF t \in AppTasks THEN appCalls + 1 ELSE appCalls
  /\ reconnFailed' = (t \in Handles /\ conn = Nil)
  /\ UNCHANGED <<shared, config, net, lconn, idx, msg, wconn, raced, dialed, late,
                 frames, appCloseCalled, last>>

\* Connect, lines 64-76: the dial succeeds and yields a fresh handle, which is
\* published in ws.conn; the listener goroutine is started and subscribeAll is
\* entered (it returns nil at once for an empty list). The handle is known to
\* no other task before it is published, so the dial and the store are one
\* step; the store takes the write lock of ws.mu.
DialOk(t) ==
  /\ AtConnect(t)
  /\ nextHandle < MaxDials
  /\ ~RLocked
  /\ nextHandle' = nextHandle + 1
  /\ dialer' = [dialer EXCEPT ![nextHandle + 1] = t]
  /\ dialed' = [dialed EXCEPT ![t] = nextHandle + 1]
  /\ conn' = nextHandle + 1
  /\ IF Len(tokens) = 0
     THEN /\ pc' = [pc EXCEPT ![t] = AfterConnect(t), ![nextHandle + 1] = "l_top"]
          /\ result' = [result EXCEPT ![t] = "connected"]
          /\ idx' = idx
     ELSE /\ pc' = [pc EXCEPT ![t] = "s_loop", ![nextHandle + 1] = "l_top"]
          /\ result' = [result EXCEPT ![t] = "none"]
          /\ idx' = [idx EXCEPT ![t] = 1]
  /\ late' = IF t \in AppTasks THEN [late EXCEPT ![t] = appCloseCalled] ELSE late
  /\ appCalls' = IF t \in AppTasks THEN appCalls + 1 ELSE appCalls
  /\ reconnFailed' = IF t \in AppTasks THEN FALSE ELSE reconnFailed
  /\ UNCHANGED <<quit, quitCloses, config, closed, broken, sent, nextId, lconn,
                 msg, wconn, raced, frames, appCloseCalled, last>>

\* subscribeAll, lines 82-99: build the request, read ws.conn under the read
\* lock, fail if it is nil
SubscribeRead(t) ==
  /\ pc[t] = "s_loop"
  /\ IF conn = Nil
     THEN /\ pc' = [pc EXCEPT ![t] = AfterConnect(t)]
          /\ result' = [result EXCEPT ![t] = "notconnected"]
          /\ lconn' = [lconn EXCEPT ![t] = Nil]
          /\ idx' = [idx EXCEPT ![t] = 0]
     ELSE /\ pc' = [pc EXCEPT ![t] = "s_write"]
          /\ result' = result
          /\ lconn' = [lconn EXCEPT ![t] = conn]
          /\ idx' = idx
  /\ UNCHANGED <<shared, config, net, msg, wconn, raced, dialed, late, hist>>

\* a WriteMessage of task t begins on handle h. gorilla's Conn supports one
\* writer at a time: if another WriteMessage is in progress on h, the two
\* calls race on the write buffer and the writer state of the connection
BeginWrite(t, h) ==
  /\ wconn' = [wconn EXCEPT ![t] = h]
  /\ raced' = IF Writing(h)
              THEN raced \cup {t} \cup {u \in Tasks : wconn[u] = h}
              ELSE raced

\* how the WriteMessage in progress in task t can end: "ok" (the message reaches
\* the peer, nil is returned), "err" (an error is returned, nothing reaches
\* the peer), and for a call that raced with another one also "lost" (nil is
\* returned but no well-formed message reaches the peer) and "panic" (the
\* library panics with "concurrent write to websocket connection")
WriteOutcomes(t) ==
  IF t \in raced THEN {"ok", "err", "lost", "panic"}
  ELSE IF IoOk(wconn[t]) THEN {"ok"}
  ELSE {"ok", "err"}

\* a subscribeAll that logs the error of a write and goes on with the next token
SubscribeWrite_IgnoreError(t) ==
  /\ pc[t] = "s_write"
  /\ IF ~IoOk(lconn[t])
     THEN /\ IF idx[t] = Len(tokens)
             THEN /\ pc' = [pc EXCEPT ![t] = AfterConnect(t)]
                  /\ result' = [result EXCEPT ![t] = "connected"]
                  /\ idx' = [idx EXCEPT ![t] = 0]
             ELSE /\ pc' = [pc EXCEPT ![t] = "s_loop"]
                  /\ result' = result
                  /\ idx' = [idx EXCEPT ![t] = idx[t] + 1]
          /\ lconn' = [lconn EXCEPT ![t] = Nil]
          /\ UNCHANGED <<wconn, raced>>
     ELSE /\ pc' = [pc EXCEPT ![t] = "s_writing"]
          /\ BeginWrite(t, lconn[t])
          /\ UNCHANGED <<result, idx, lconn>>
  /\ UNCHANGED <<shared, config, net, msg, dialed, late, hist>>

\* subscribeAll, line 101: WriteMessage is called on the handle read above,
\* outside the lock; on a handle that is closed or whose transport failed it
\* returns an error at once and the sequence ends
SubscribeWrite(t) ==
  /\ pc[t] = "s_write"
  /\ IF ~IoOk(lconn[t])
     THEN /\ pc' = [pc EXCEPT ![t] = AfterConnect(t)]
          /\ result' = [result EXCEPT ![t] = "subfail"]
          /\ idx' = [idx EXCEPT ![t] = 0]
          /\ lconn' = [lconn EXCEPT ![t] = Nil]
          /\ UNCHANGED <<wconn, raced>>
     ELSE /\ pc' = [pc EXCEPT ![t] = "s_writing"]
          /\ BeginWrite(t, lconn[t])
          /\ UNCHANGED <<result, idx, lconn>>
  /\ UNCHANGED <<shared, config, net, msg, dialed, late, hist>>

\* subscribeAll, lines 101-110: the WriteMessage returns. It succeeds if the
\* handle still works; if the handle was closed or failed during the write,
\* the request went out before that or the write returns an error. A failed
\* write ends the sequence, the last successful one returns nil. A panic of
\* the library unwinds Connect: in the application it reaches the caller of
\* Connect, in a reconnect it is recovered by the deferred function of listen.
SubscribeWritten(t) ==
  /\ pc[t] = "s_writing"
  /\ \E o \in WriteOutcomes(t) :
       IF o \in {"err", "panic"}
       THEN /\ pc' = [pc EXCEPT ![t] = AfterConnect(t)]
            /\ result' = [result EXCEPT ![t] = IF o = "err" THEN "subfail" ELSE "panic"]
            /\ idx' = [idx EXCEPT ![t] = 0]
            /\ UNCHANGED <<sent, nextId>>
       ELSE /\ sent' = IF o = "ok"
                       THEN [sent EXCEPT ![wconn[t]] = Append(@, Channel(nextId + 1, tokens[idx[t]]))]
                       ELSE sent
            /\ nextId' = nextId + 1
            /\ IF idx[t] = Len(tokens)
               THEN /\ pc' = [pc EXCEPT ![t] = AfterConnect(t)]
                    /\ result' = [result EXCEPT ![t] = "connected"]
                    /\ idx' = [idx EXCEPT ![t] = 0]
               ELSE /\ pc' = [pc EXCEPT ![t] = "s_loop"]
                    /\ result' = result
                    /\ idx' = [idx EXCEPT ![t] = idx[t] + 1]
  /\ lconn' = [lconn EXCEPT ![t] = Nil]
  /\ wconn' = [wconn EXCEPT ![t] = Nil]
  /\ raced' = raced \ {t}
  /\ UNCHANGED <<shared, config, nextHandle, dialer, closed, broken, msg, dialed,
                 late, hist>>

\* ---------------------------------------------------------------- Close
\* a Close without the select of lines 241-245: it closes quit every time
Close_NoQuitGuard(t, err) ==
  /\ ~RLocked
  /\ quit' = TRUE
  /\ quitCloses' = quitCloses + 1
  /\ IF conn # Nil
     THEN /\ closed' = [closed EXCEPT ![conn] = @ + 1]
          /\ conn' = Nil
          /\ result' = IF t \in AppTasks
                       THEN [result EXCEPT ![t] = IF err THEN "closeerr" ELSE "closed"]
                       ELSE result
     ELSE /\ UNCHANGED <<closed, conn>>
          /\ result' = IF t \in AppTasks THEN [result EXCEPT ![t] = "closed"] ELSE result

\* Close, lines 237-256, with the mutex held throughout: close quit unless it
\* is closed already, close and clear the connection if there is one (the
\* write lock is free only when no sendPong holds the read lock). err is
\* the outcome of conn.Close(); only an application caller looks at the result.
Close(t, err) ==
  /\ ~RLocked
  /\ quit' = TRUE
  /\ quitCloses' = IF quit THEN quitCloses ELSE quitCloses + 1
  /\ IF conn # Nil
     THEN /\ closed' = [closed EXCEPT ![conn] = @ + 1]
          /\ conn' = Nil
          /\ result' = IF t \in AppTasks
                       THEN [result EXCEPT ![t] = IF err THEN "closeerr" ELSE "closed"]
                       ELSE result
     ELSE /\ UNCHANGED <<closed, conn>>
          /\ result' = IF t \in AppTasks THEN [result EXCEPT ![t] = "closed"] ELSE result

\* the application calls Close
AppClose(t) ==
  /\ t \in AppTasks
  /\ pc[t] = "idle"
  /\ appCalls < MaxAppCalls
  /\ \E err \in BOOLEAN : Close(t, err)
  /\ appCalls' = appCalls + 1
  /\ appCloseCalled' = TRUE
  /\ UNCHANGED <<config, nextHandle, dialer, broken, sent, nextId, pc, lconn,
                 idx, msg, wconn, raced, dialed, late, frames, reconnFailed, last>>

\* ---------------------------------------------------------------- listen
\* listen, lines 123-135: read ws.conn under the read lock, return if it is
\* nil, return if quit is closed
ListenTop(t) ==
  /\ pc[t] = "l_top"
  /\ IF conn = Nil \/ quit
     THEN pc' = [pc EXCEPT ![t] = "exited"] /\ lconn' = lconn
     ELSE pc' = [pc EXCEPT ![t] = "l_read"] /\ lconn' = [lconn EXCEPT ![t] = conn]
  /\ last' = IF last.t = t THEN NoLast ELSE last
  /\ UNCHANGED <<shared, config, net, idx, msg, wconn, raced, dialed, result, late,
                 frames, appCalls, appCloseCalled, reconnFailed>>

\* listen, lines 137-142: ReadMessage returns an error; listen calls reconnect
ListenReadError(t) ==
  /\ pc[t] = "l_read"
  /\ ~IoOk(lconn[t])
  /\ pc' = [pc EXCEPT ![t] = "r_close"]
  /\ lconn' = [lconn EXCEPT ![t] = Nil]
  /\ UNCHANGED <<shared, config, net, idx, msg, wconn, raced, dialed, result, late, hist>>

\* listen, line 137: ReadMessage returns the next frame
ListenRead(t) ==
  /\ pc[t] = "l_read"
  /\ IoOk(lconn[t])
  /\ frames < MaxFrames
  /\ \E f \in Frames : msg' = [msg EXCEPT ![t] = f]
  /\ frames' = frames + 1
  /\ pc' = [pc EXCEPT ![t] = "h_msg"]
  /\ UNCHANGED <<shared, config, net, lconn, idx, wconn, raced, dialed, result, late,
                 appCalls, appCloseCalled, reconnFailed, last>>

\* the handle sendPong calls WriteMessage on: ws.conn, read under the read lock
PongTarget == conn
\* sendPong, line 220: the effect of the WriteMessage on h; its error is dropped
sendPong(h) ==
  IF IoOk(h)
  THEN sent' = [sent EXCEPT ![h] = Append(@, PongMsg)]
  ELSE sent' = sent

\* handleMessage, lines 150-169 (with dispatch and the callback, which run
\* synchronously), and the return to the top of the loop in listen. For a
\* "Ping" with a connection in the slot the step ends inside sendPong, with
\* the read lock held and the WriteMessage begun. A callback may panic: the
\* panic unwinds dispatch, handleMessage and listen, is recovered by the
\* deferred function of listen (lines 116-120), and listen returns.
HandleMessage(t) ==
  /\ pc[t] = "h_msg"
  /\ LET d == decompress(msg[t])
         u == Unmarshal(d.data)
         r == dispatch(u.m, messageHandler)
         rec == [t |-> t, h |-> lconn[t], f |-> msg[t], pongCalls |-> 0, pongTo |-> Nil,
                 cb |-> NoUpdate, diag |-> "none", panicked |-> FALSE]
     IN IF ~d.err /\ d.data = TextPayload(PingText) /\ PongTarget # Nil
        THEN /\ pc' = [pc EXCEPT ![t] = "p_writing"]
             /\ BeginWrite(t, PongTarget)
             /\ UNCHANGED <<last, msg, lconn>>
        ELSE /\ IF d.err
                THEN /\ last' = [rec EXCEPT !.diag = "Decompression failed"]
                     /\ pc' = [pc EXCEPT ![t] = "l_top"]
                ELSE IF d.data = TextPayload(PingText)
                THEN /\ last' = rec
                     /\ pc' = [pc EXCEPT ![t] = "l_top"]
                ELSE IF u.err
                THEN /\ last' = [rec EXCEPT !.diag = "JSON decode failed"]
                     /\ pc' = [pc EXCEPT ![t] = "l_top"]
                ELSE IF r.cb = NoUpdate
                THEN /\ last' = [rec EXCEPT !.diag = r.diag]
                     /\ pc' = [pc EXCEPT ![t] = "l_top"]
                ELSE \E panics \in BOOLEAN :
                       /\ last' = [rec EXCEPT !.cb = r.cb, !.panicked = panics,
                                    !.diag = IF panics THEN "Recovered in listener"
                                                       ELSE r.diag]
                       /\ pc' = [pc EXCEPT ![t] = IF panics THEN "exited" ELSE "l_top"]
             /\ msg' = [msg EXCEPT ![t] = NoFrame]
             /\ lconn' = [lconn EXCEPT ![t] = Nil]
             /\ UNCHANGED <<wconn, raced>>
  /\ UNCHANGED <<shared, config, net, idx, dialed, result, late, frames,
                 appCalls, appCloseCalled, reconnFailed>>

\* a sendPong after which handleMessage does not return (line 159) but goes
\* on to decode the text "Ping" as JSON
SendPong_NoReturn(t) ==
  /\ pc[t] = "p_writing"
  /\ \E o \in WriteOutcomes(t) :
       /\ IF o = "ok" THEN sendPong(wconn[t]) ELSE sent' = sent
       /\ last' = [t |-> t, h |-> lconn[t], f |-> msg[t], pongCalls |-> 1, pongTo |-> wconn[t],
                   cb |-> NoUpdate, panicked |-> FALSE,
                   diag |-> IF o = "panic" THEN "Recovered in listener" ELSE "JSON decode failed"]
       /\ pc' = [pc EXCEPT ![t] = IF o = "panic" THEN "exited" ELSE "l_top"]
  /\ msg' = [msg EXCEPT ![t] = NoFrame]
  /\ lconn' = [lconn EXCEPT ![t] = Nil]
  /\ wconn' = [wconn EXCEPT ![t] = Nil]
  /\ raced' = raced \ {t}
  /\ UNCHANGED <<shared, config, nextHandle, dialer, closed, broken, nextId, idx,
                 dialed, result, late, frames, appCalls, appCloseCalled,
                 reconnFailed>>

\* sendPong, lines 220-222, and handleMessage, line 159: the WriteMessage of
\* the Pong returns (its error is dropped), the read lock is released,
\* handleMessage returns and listen goes back to the top of its loop. A panic
\* of the library runs the deferred RUnlock, unwinds handleMessage and listen,
\* is recovered by the deferred function of listen, and listen returns.
SendPong(t) ==
  /\ pc[t] = "p_writing"
  /\ \E o \in WriteOutcomes(t) :
       /\ IF o = "ok" THEN sendPong(wconn[t]) ELSE sent' = sent
       /\ last' = [t |-> t, h |-> lconn[t], f |-> msg[t], pongCalls |-> 1, pongTo |-> wconn[t],
                   cb |-> NoUpdate, panicked |-> FALSE,
                   diag |-> IF o = "panic" THEN "Recovered in listener" ELSE "none"]
       /\ pc' = [pc EXCEPT ![t] = IF o = "panic" THEN "exited" ELSE "l_top"]
  /\ msg' = [msg EXCEPT ![t] = NoFrame]
  /\ lconn' = [lconn EXCEPT ![t] = Nil]
  /\ wconn' = [wconn EXCEPT ![t] = Nil]
  /\ raced' = raced \ {t}
  /\ UNCHANGED <<shared, config, nextHandle, dialer, closed, broken, nextId, idx,
                 dialed, result, late, frames, appCalls, appCloseCalled,
                 reconnFailed>>

\* ---------------------------------------------------------------- reconnect
\* reconnect, lines 227-229: Close, then the two-second sleep; Connect follows
ReconnectClose(t) ==
  /\ pc[t] = "r_close"
  /\ \E err \in BOOLEAN : Close(t, err)
  /\ pc' = [pc EXCEPT ![t] = "c_dial"]
  /\ UNCHANGED <<config, nextHandle, dialer, broken, sent, nextId, lconn, idx,
                 msg, wconn, raced, dialed, late, hist>>

\* ---------------------------------------------------------------- environment
\* the transport of a live handle fails (peer reset, network loss)
Break(h) ==
  /\ Live(h)
  /\ ~broken[h]
  /\ broken' = [broken EXCEPT ![h] = TRUE]
  /\ UNCHANGED <<shared, config, nextHandle, dialer, closed, sent, nextId,
                 locals, hist>>

Next ==
  \/ \E t \in Tasks : DialFail(t)
  \/ \E t \in Tasks : DialOk(t)
  \/ \E t \in Tasks : SubscribeRead(t)
  \/ \E t \in Tasks : SubscribeWrite(t)
  \/ \E t \in Tasks : SubscribeWritten(t)
  \/ \E t \in AppTasks : AppClose(t)
  \/ \E t \in Handles : ListenTop(t)
  \/ \E t \in Handles : ListenReadError(t)
  \/ \E t \in Handles : ListenRead(t)
  \/ \E t \in Handles : HandleMessage(t)
  \/ \E t \in Handles : SendPong(t)
  \/ \E t \in Handles : ReconnectClose(t)
  \/ \E h \in Handles : Break(h)

Spec == Init /\ [][Next]_vars

\* the application shuts down: a Close after its MaxAppCalls other calls
AppShutdown(t) ==
  /\ t \in AppTasks
  /\ pc[t] = "idle"
  /\ appCalls = MaxAppCalls
  /\ \E err \in BOOLEAN : Close(t, err)
  /\ appCalls' = appCalls + 1
  /\ appCloseCalled' = TRUE
  /\ UNCHANGED <<config, nextHandle, dialer, broken, sent, nextId, pc, lconn,
                 idx, msg, wconn, raced, dialed, late, frames, reconnFailed, last>>

NextShutdown ==
  \/ Next
  \/ \E t \in AppTasks : AppShutdown(t)

\* the behaviours of Spec, each possibly followed by the shutdown of the application
SpecShutdown == Init /\ [][NextShutdown]_vars

TypeOK ==
  /\ conn \in Handles \cup {Nil}
  /\ quit \in BOOLEAN
  /\ nextHandle \in 0..MaxDials
  /\ \A t \in Tasks : pc[t] \in {"idle", "unborn", "c_dial", "s_loop",
                                 "s_write", "s_writing", "l_top", "l_read",
                                 "h_msg", "p_writing",
                                 "r_close", "exited"}
\* ---------------------------------------------------------------- helpers of the properties
SubsOf(q) == SelectSeq(q, LAMBDA m : m.ReqType = "sub")
PongsOf(q) == SelectSeq(q, LAMBDA m : m.ReqType = "Pong")
\* every subscribe request in s, as (handle, position) pairs
AllSubs(s) == UNION {{<<h, i>> : i \in 1..Len(SubsOf(s[h]))} : h \in Handles}
InReadLoop(t) == pc[t] \in {"l_top", "l_read", "h_msg", "p_writing"}
PingFrame == Frame(TRUE, TextPayload(PingText))
\* the step is task t leaving handleMessage
HandledBy(t) == pc[t] \in {"h_msg", "p_writing"} /\ pc'[t] \notin {"h_msg", "p_writing"}
\* the step is a Close executed by the application / by reconnect in task t
AppCloseStep(t) == t \in AppTasks /\ appCalls' > appCalls /\ result'[t] \in {"closed", "closeerr"}
ReconnectCloseStep(t) == t \in Handles /\ pc[t] = "r_close" /\ pc'[t] # "r_close"
CloseStep == (\E t \in AppTasks : AppCloseStep(t)) \/ (\E t \in Handles : ReconnectCloseStep(t))
\* the step is a dial that succeeds in task t
DialStep(t) == nextHandle' > nextHandle /\ dialer'[nextHandle'] = t
\* the step is a subscribe request written by task t
SubWriteStep(t) == pc[t] = "s_writing" /\ pc'[t] # "s_writing" /\ sent' # sent

\* ---------------------------------------------------------------- C1
\* C1: once the application has called Close, no reconnect attempt occurs: no
\* listener task dials and no listener task writes a subscribe request.
C1_NoReconnectAfterClose ==
  [][appCloseCalled => \A t \in Handles : ~DialStep(t) /\ ~SubWriteStep(t)]_vars

\* ---------------------------------------------------------------- C2
\* C2: after a reconnect whose Connect returned nil (no Close by the
\* application), while the new connection is in the slot and healthy, it has
\* received the configured requests in order and its read loop is running.
C2_ResumesAfterReconnect ==
  \A t \in Handles :
    (pc[t] = "exited" /\ result[t] = "connected" /\ ~appCloseCalled
       /\ conn = dialed[t] /\ IoOk(conn))
    => /\ Len(SubsOf(sent[conn])) = Len(tokens)
       /\ \A i \in 1..Len(tokens) : SubsOf(sent[conn])[i].DataType = tokens[i]
       /\ InReadLoop(conn)

\* ---------------------------------------------------------------- C3
\* C3: whenever the transport of the connection in the slot has failed and the
\* application has not called Close, some listener goroutine is alive: in its
\* read loop (it will see the read error) or in a reconnect.
C3_FailureIsObserved ==
  (conn # Nil /\ broken[conn] /\ ~appCloseCalled)
  => \E u \in Handles : pc[u] \notin {"unborn", "exited"}

\* ---------------------------------------------------------------- C4
\* C4: a Connect that returns nil has written exactly Len(tokens) subscribe
\* requests to the handle it dialed, one per token in list order, each with
\* reqType "sub", and all request ids written so far are pairwise distinct.
ConnectReturnsNil(t) ==
  /\ result'[t] = "connected"
  /\ pc'[t] = AfterConnect(t)
  /\ pc[t] = "s_writing" \/ DialStep(t)
C4_ConnectSendsAll ==
  [][\A t \in Tasks : ConnectReturnsNil(t) =>
       LET reqs == SubsOf(sent'[dialed'[t]])
       IN /\ Len(reqs) = Len(tokens)
          /\ \A i \in 1..Len(reqs) : reqs[i].ReqType = "sub" /\ reqs[i].DataType = tokens[i]
          /\ \A x, y \in AllSubs(sent') :
               x # y => SubsOf(sent'[x[1]])[x[2]].ID # SubsOf(sent'[y[1]])[y[2]].ID]_vars

\* ---------------------------------------------------------------- C5
\* C5: at most one handle is dialed and not closed, and the handle in the slot
\* is never replaced or removed without having been closed.
C5_AtMostOneLive ==
  [][/\ Cardinality({h \in Handles : Live(h)}') <= 1
     /\ (conn # Nil /\ conn' # conn) => closed'[conn] > 0]_vars

\* ---------------------------------------------------------------- C6
\* C6: Close is idempotent: quit is closed at most once, no handle is closed
\* more than once, every Close leaves the slot empty and quit closed, and a
\* Close that follows another Close with the slot still empty closes nothing
\* and returns nil.
C6_CloseIdempotent ==
  [][/\ quitCloses' <= 1
     /\ \A h \in Handles : closed'[h] <= 1
     /\ CloseStep => conn' = Nil /\ quit'
     /\ (CloseStep /\ quit) => quitCloses' = quitCloses
     /\ (CloseStep /\ quit /\ conn = Nil) => closed' = closed
     /\ \A t \in AppTasks : (AppCloseStep(t) /\ conn = Nil) => result'[t] = "closed"]_vars
\* a handle was closed by one Close and another Close (of the application and
\* of a reconnect) ran as well
C6_Witness ==
  \E h \in Handles : /\ closed[h] = 1 /\ appCloseCalled /\ pc[h] = "c_dial"
                     /\ quitCloses = 1 /\ conn = Nil

\* ---------------------------------------------------------------- C7
\* C7: after the application has called Close, a Connect of the application
\* neither publishes a handle nor writes a subscribe request.
C7_NoConnectAfterClose ==
  [][\A t \in AppTasks :
       /\ appCloseCalled => ~DialStep(t)
       /\ late[t] => ~SubWriteStep(t)]_vars

\* ---------------------------------------------------------------- C8
\* C8 (as stated): the handling of a decoded "Ping" makes exactly one Pong
\* write and no callback invocation, whatever the state.
C8_PingOnePong ==
  last.f = PingFrame => last.pongCalls = 1 /\ last.cb = NoUpdate
\* C8 (amended): the handling of a decoded "Ping" invokes no callback and
\* writes nothing but a Pong: one WriteMessage("Pong") on the handle in the
\* connection slot when the slot is not empty (the Pong is appended to what
\* that handle received if its transport works), and no write at all when
\* the slot is empty.
C8_PingPongIfConnected ==
  [][\A t \in Handles : (HandledBy(t) /\ msg[t] = PingFrame) =>
       /\ last'.f = PingFrame
       /\ last'.cb = NoUpdate
       /\ last'.diag \in {"none", "Recovered in listener"}
       /\ last'.pongCalls = IF conn = Nil THEN 0 ELSE 1
       /\ last'.pongTo = conn
       /\ \/ sent' = sent
          \/ conn # Nil /\ sent' = [sent EXCEPT ![conn] = Append(@, PongMsg)]
       /\ t \notin raced =>
            /\ last'.diag = "none"
            /\ sent' = IF conn # Nil /\ IoOk(conn)
                       THEN [sent EXCEPT ![conn] = Append(@, PongMsg)]
                       ELSE sent]_vars
C8_Witness ==
  /\ last.f = PingFrame /\ last.pongCalls = 1
  /\ Len(PongsOf(sent[last.pongTo])) = 1

\* ---------------------------------------------------------------- C9
\* C9: a Connect whose dial fails returns the dial error and changes nothing
\* else: the slot, the handles, the messages sent and the set of started
\* listeners are as before.
DialFailStep(t) ==
  /\ result'[t] = "dialfail"
  /\ \/ t \in AppTasks /\ appCalls' > appCalls
     \/ t \in Handles /\ pc[t] = "c_dial" /\ pc'[t] # "c_dial"
C9_DialFailureChangesNothing ==
  [][\A t \in Tasks : DialFailStep(t) =>
       /\ conn' = conn /\ quit' = quit
       /\ nextHandle' = nextHandle /\ dialer' = dialer /\ closed' = closed
       /\ sent' = sent
       /\ \A h \in Handles : pc'[h] = "unborn" <=> pc[h] = "unborn"
       /\ pc'[t] = AfterConnect(t)]_vars
\* a dial failed while a connection was in the slot
C9_Witness ==
  \E t \in AppTasks : result[t] = "dialfail" /\ conn # Nil /\ Live(conn)

\* ---------------------------------------------------------------- C10
\* C10: a decoded data frame whose channel or price text is empty causes no
\* callback invocation, no diagnostic and no write, leaves the connection and
\* the handles as they were, and the listener goes back to the top of its loop.
EmptyField(f) ==
  f.gz /\ f.payload.kind = "json" /\ (f.payload.dataType = Empty \/ f.payload.p = Empty)
C10_EmptyFieldDropped ==
  [][\A t \in Handles : (HandledBy(t) /\ EmptyField(msg[t])) =>
       /\ last'.f = msg[t]
       /\ last'.cb = NoUpdate /\ last'.diag = "none" /\ last'.pongCalls = 0
       /\ conn' = conn /\ quit' = quit /\ closed' = closed /\ sent' = sent
       /\ pc'[t] = "l_top"]_vars
C10_Witness ==
  /\ EmptyField(last.f)
  /\ \E t \in Handles : pc[t] = "l_top" /\ dialer[t] # Nil

\* ---------------------------------------------------------------- C11
\* the positions of '@' in s, and the symbol the channel s stands for
AtPositions(s) == {k \in 1..Len(s) : s[k] = "@"}
SymbolOf(s) ==
  IF AtPositions(s) = {} THEN s
  ELSE LET first == CHOOSE k \in AtPositions(s) : \A j \in AtPositions(s) : k <= j
       IN IF first > 1 THEN SubSeq(s, 1, first - 1) ELSE s
\* C11: the symbol of a delivered PriceUpdate is the part of the channel before
\* its first '@' when that '@' is not the first character, and the whole
\* channel otherwise.
C11_SymbolBeforeFirstAt ==
  last.cb # NoUpdate =>
    /\ last.cb.Type = "priceUpdate"
    /\ last.cb.Symbol = SymbolOf(last.f.payload.dataType)
C11_Witness ==
  /\ last.cb # NoUpdate
  /\ last.f.payload.dataType = BtcTrade
  /\ last.cb.Symbol = <<"B">>

\* ---------------------------------------------------------------- C12
\* s as a whole is a decimal number: an optional sign, digits with at most one
\* '.', at least one digit, nothing else
IsDecimal(s) ==
  LET b == IF s # Empty /\ s[1] \in {"+", "-"} THEN Tail(s) ELSE s
  IN /\ \A k \in 1..Len(b) : b[k] \in Digits \cup {"."}
     /\ Cardinality({k \in 1..Len(b) : b[k] = "."}) <= 1
     /\ \E k \in 1..Len(b) : b[k] \in Digits
\* C12: a data frame whose price text is not a decimal number as a whole
\* causes no callback invocation and an "Invalid price" diagnostic.
C12_MalformedPriceDropped ==
  (/\ last.f.gz /\ last.f.payload.kind = "json"
   /\ last.f.payload.dataType # Empty /\ last.f.payload.p # Empty
   /\ ~IsDecimal(last.f.payload.p))
  => last.cb = NoUpdate /\ last.diag = "Invalid price"

\* ---------------------------------------------------------------- C13
\* task t is inside the subscribeAll of its Connect
Subscribing(t) == pc[t] \in {"s_loop", "s_write", "s_writing"}
\* C13: while a Connect is still sending its subscribe requests, the listener
\* it started has executed nothing yet: it reads no frame, dispatches nothing,
\* writes no Pong.
C13_ListenAfterSubscribe ==
  \A t \in Tasks : Subscribing(t) => pc[dialed[t]] \in {"unborn", "l_top"}

\* ---------------------------------------------------------------- C14
\* the listener goroutines that were started and have not returned
ActiveListeners == {t \in Handles : pc[t] \notin {"unborn", "exited"}}
\* C14: at most one listener goroutine is active at any time.
C14_OneListener == Cardinality(ActiveListeners) <= 1

\* ---------------------------------------------------------------- C15
\* C15: a panic of the callback does not end the read loop: after the frame
\* whose callback panicked, the listener is back at the top of its loop.
C15_PanicDoesNotStopLoop ==
  [][\A t \in Handles : (HandledBy(t) /\ last'.panicked) => pc'[t] = "l_top"]_vars

\* ---------------------------------------------------------------- C16
\* C16: while a WriteMessage (subscribe request or Pong) is in progress on a
\* handle, the handle is not closed and, if it is in the slot, stays there.
C16_NoCloseDuringWrite ==
  [][\A h \in Handles : Writing(h) =>
       /\ closed'[h] = closed[h]
       /\ conn = h => conn' = h]_vars

\* ---------------------------------------------------------------- C17
\* the step is subscribeAll in task t returning the error e: nothing is
\* written, the loop is left and Connect returns
SubscribeFails(t, e) ==
  /\ result'[t] = e
  /\ pc'[t] = AfterConnect(t)
  /\ idx'[t] = 0
  /\ sent' = sent /\ nextId' = nextId
\* C17: when subscribeAll finds the slot empty, or a write of a request
\* fails, it returns an error at that point and writes no further request.
C17_SubscribeStopsOnError ==
  [][\A t \in Tasks :
       /\ (pc[t] = "s_loop" /\ pc'[t] # "s_loop" /\ conn = Nil)
            => SubscribeFails(t, "notconnected")
       /\ (pc[t] = "s_write" /\ pc'[t] # "s_write" /\ ~IoOk(lconn[t]))
            => SubscribeFails(t, "subfail")
       /\ (pc[t] = "s_writing" /\ result'[t] = "subfail")
            => SubscribeFails(t, "subfail")
       /\ (pc[t] = "s_writing" /\ pc'[t] # "s_writing" /\ sent' = sent /\ t \notin raced)
            => SubscribeFails(t, "subfail")]_vars
\* a sequence of two requests ended with an error after its first request
C17_Witness ==
  \E t \in Tasks :
    /\ result[t] \in {"subfail", "notconnected"} /\ pc[t] = AfterConnect(t)
    /\ Len(tokens) = 2 /\ dialed[t] # Nil
    /\ Len(SubsOf(sent[dialed[t]])) = 1
    /\ nextId = 1

\* ---------------------------------------------------------------- C18
\* C18: after the dial of a reconnect failed, and until the application calls
\* Connect again, the slot is empty, no listener goroutine is reading or
\* handling a frame (one that was just started returns at once on the empty
\* slot) and no listener goroutine attempts a dial.
C18_NoRetryAfterFailedReconnect ==
  [][reconnFailed =>
       /\ conn = Nil
       /\ \A t \in Handles : pc[t] \notin {"l_read", "h_msg", "p_writing", "r_close"}
       /\ \A t \in Handles : ~(pc[t] = "c_dial" /\ pc'[t] # "c_dial")]_vars

\* ---------------------------------------------------------------- C19
\* C19: a frame that is not a gzip stream is dropped and logged: no Pong, no
\* callback, nothing written, the connection, the handles and quit unchanged,
\* and the listener goes back to the top of its loop.
C19_UndecodableDropped ==
  [][\A t \in Handles : (HandledBy(t) /\ ~msg[t].gz) =>
       /\ last'.f = msg[t]
       /\ last'.diag = "Decompression failed"
       /\ last'.pongCalls = 0 /\ last'.cb = NoUpdate
       /\ sent' = sent /\ conn' = conn /\ closed' = closed /\ quit' = quit
       /\ pc'[t] = "l_top"]_vars
C19_Witness ==
  /\ last.f = Frame(FALSE, TextPayload(PingText))
  /\ last.h # Nil /\ IoOk(last.h) /\ conn = last.h
  /\ pc[last.t] = "l_top"

\* ---------------------------------------------------------------- C20
\* C20: the Pong that answers a Ping is written to the handle the Ping was
\* read from.
C20_PongOnSameHandle ==
  (last.f = PingFrame /\ last.pongCalls = 1) => last.pongTo = last.h

\* ---------------------------------------------------------------- C21
\* C21: quit is closed only by a Close call of the application: whenever quit
\* is closed, the application has called Close.
C21_QuitOnlyByApplication == quit => appCloseCalled

\* ---------------------------------------------------------------- C22
\* the tasks that have a WriteMessage in progress on h
WritersOf(h) == {t \in Tasks : wconn[t] = h}
\* C22: at most one WriteMessage is in progress on a handle at any time.
C22_OneWriterPerHandle == \A h \in Handles : Cardinality(WritersOf(h)) <= 1

\* ---------------------------------------------------------------- C23
\* C23: every subscribe request of a subscribeAll is written to the handle
\* that the enclosing Connect dialed, and no handle receives two subscribe
\* requests for the same configured channel.
C23_OneHandlePerSequence ==
  [][/\ \A t \in Tasks : SubWriteStep(t) => wconn[t] = dialed[t]
     /\ \A h \in Handles :
          LET reqs == SubsOf(sent'[h])
          IN \A i, j \in 1..Len(reqs) : i # j => reqs[i].DataType # reqs[j].DataType]_vars

\* ---------------------------------------------------------------- C24
\* the step is the subscribeAll of task t returning an error to Connect
SubscribeErrorStep(t) ==
  /\ Subscribing(t)
  /\ pc'[t] = AfterConnect(t)
  /\ result'[t] \in {"subfail", "notconnected"}
\* C24: when Connect returns an error, the handle it dialed (if any) is not
\* left open in the slot and the listener it started (if any) has returned; a
\* Connect whose dial failed has stored nothing and started nothing.
C24_FailedConnectLeavesNothing ==
  [][\A t \in Tasks :
       /\ SubscribeErrorStep(t) =>
            /\ ~(conn' = dialed[t] /\ closed'[dialed[t]] = 0)
            /\ pc'[dialed[t]] = "exited"
       /\ DialFailStep(t) =>
            /\ conn' = conn
            /\ \A h \in Handles : pc[h] = "unborn" => pc'[h] = "unborn"]_vars

\* ---------------------------------------------------------------- C25
\* C25: once a Close call of the application has returned, no ReadMessage of
\* a listener returns a frame any more (so the only callback that can still
\* run is the one for a frame read before).
C25_NoReadAfterClose ==
  [][appCloseCalled => frames' = frames]_vars
====
